---- MODULE Spec2Model ----
(***************************************************************************)
(* Kazhutha card game server (src/main.py): one GameSession of the `games` *)
(* registry and the request handlers that mutate it.  The session object   *)
(* is the record `game`; every GameSession method is an operator from a    *)
(* session record (and the call's arguments) to the session after the call *)
(* and the value returned, computed statement by statement as the method   *)
(* does.  Every request handler is one action.                             *)
(***************************************************************************)
EXTENDS Integers, Sequences, FiniteSets, TLC

\* game: the GameSession object.
\* first_card: history variable, not a field of the program: <<c>> when c is
\* the first card play_card accepted since the last start_game that dealt,
\* <<>> while no card has been accepted since.
VARIABLES game, first_card

vars == <<game, first_card>>

(***************************************************************************)
(* Bounds of the model.                                                    *)
(***************************************************************************)
\* number of distinct client names that send requests
NumNames == 3
\* number of suits of the Suit enum in the deck (SPADES always among them)
NumSuits == 2
\* number of ranks of the Rank enum in the deck (ACE always among them)
NumRanks == 3
\* number of names whose socket drops while a game is running
NumDroppers == 1
\* SpecRedeal: number of client names, number of ranks per suit, and the
\* number of decks start_game may deal into one session before a reset
NumRedealNames == 2
RedealRanks == 2
MaxDeals == 2

\* SpecLobby: number of client names, and number of names whose socket drops
NumLobbyNames == 9
NumLobbyDroppers == 2

\* SpecPlay: number of suits and of ranks per suit of the deck
NumPlaySuits == 3
PlayRanks == 2
\* the longest sequence of accepted moves examined for a return to its start
MaxCycle == 9

None == "None"

(***************************************************************************)
(* Card model                                                              *)
(***************************************************************************)
SuitEnum == <<"HEARTS", "DIAMONDS", "CLUBS", "SPADES">>

RankEnum == <<"ACE", "KING", "QUEEN", "JACK", "10", "9", "8", "7", "6", "5",
              "4", "3", "2">>

rank_values == [r \in {RankEnum[i] : i \in 1..13} |->
                  CASE r = "ACE" -> 14 [] r = "KING" -> 13 [] r = "QUEEN" -> 12
                    [] r = "JACK" -> 11 [] r = "10" -> 10 [] r = "9" -> 9
                    [] r = "8" -> 8 [] r = "7" -> 7 [] r = "6" -> 6
                    [] r = "5" -> 5 [] r = "4" -> 4 [] r = "3" -> 3
                    [] r = "2" -> 2]

\* Card.value
value(card) == rank_values[card.rank]

\* the suits in play: the last NumSuits members of Suit
Suits == {SuitEnum[i] : i \in (5 - NumSuits)..4}

Card(suit, rank) == [suit |-> suit, rank |-> rank]

\* the cards of a deck of the first num_ranks ranks of each suit
Cards(num_ranks) == {Card(s, RankEnum[i]) : s \in Suits, i \in 1..num_ranks}

ace_of_spades == Card("SPADES", "ACE")

\* position of Suit.value in the order of Python's string comparison
SuitKey(suit) == CASE suit = "CLUBS" -> 1 [] suit = "DIAMONDS" -> 2
                   [] suit = "HEARTS" -> 3 [] suit = "SPADES" -> 4

\* the sort key (c.suit.value, -c.value), compared as Python compares tuples
KeyLess(a, b) == \/ SuitKey(a.suit) < SuitKey(b.suit)
                 \/ SuitKey(a.suit) = SuitKey(b.suit) /\ value(a) > value(b)

(***************************************************************************)
(* Sequence helpers (Python list operations)                               *)
(***************************************************************************)
Range(seq) == {seq[i] : i \in 1..Len(seq)}

InSeq(x, seq) == \E i \in 1..Len(seq) : seq[i] = x

\* list.index(x), 1-based; x is in seq
IndexOf(x, seq) == CHOOSE i \in 1..Len(seq) :
                     seq[i] = x /\ \A j \in 1..(i - 1) : seq[j] # x

\* list.remove(x): removes the first occurrence
RemoveFirst(x, seq) == LET i == IndexOf(x, seq) IN
                       SubSeq(seq, 1, i - 1) \o SubSeq(seq, i + 1, Len(seq))

\* list.insert(i, x) with a 0-based index i
InsertAt(seq, i, x) == SubSeq(seq, 1, i) \o <<x>> \o SubSeq(seq, i + 1, Len(seq))

RECURSIVE InsertSorted(_, _)
InsertSorted(card, sorted) ==
  IF sorted = <<>> THEN <<card>>
  ELSE IF KeyLess(card, Head(sorted)) THEN <<card>> \o sorted
  ELSE <<Head(sorted)>> \o InsertSorted(card, Tail(sorted))

\* list.sort(key=lambda c: (c.suit.value, -c.value)); cards with equal keys
\* are equal cards, so the stable order among them is not observable
RECURSIVE sort_hand(_)
sort_hand(cards) ==
  IF cards = <<>> THEN <<>>
  ELSE InsertSorted(cards[Len(cards)], sort_hand(SubSeq(cards, 1, Len(cards) - 1)))

\* the cards of a pile of (player, card) pairs, in order
PileCards(pile) == [i \in 1..Len(pile) |-> pile[i][2]]

(***************************************************************************)
(* GameSession                                                             *)
(***************************************************************************)
\* last_action is None
NoAction == <<>>

\* GameSession.__init__.  players is the dict name -> hand; its key order is
\* always player_order (both are appended to and deleted from together), so
\* list(self.players.keys()) is modelled by player_order.
GameSession(host_name) ==
  [players |-> [n \in {host_name} |-> <<>>],
   player_order |-> <<host_name>>,
   active_players |-> <<>>,
   current_player_idx |-> 0,
   current_pile |-> <<>>,
   current_suit |-> None,
   original_suit |-> None,
   game_started |-> FALSE,
   finished |-> FALSE,
   kazhutha |-> None,
   winners |-> <<>>,
   host_name |-> host_name,
   discarded_cards |-> <<>>,
   round_in_progress |-> FALSE,
   last_action |-> NoAction,
   game_first_card_played |-> FALSE,
   resolved_pile |-> <<>>,
   resolved_winner |-> None,
   suit_was_broken |-> FALSE,
   taken_hand_cards |-> <<>>,
   taken_hand_from |-> None,
   taken_hand_by |-> None,
   original_players |-> <<>>,
   connected_players |-> {},
   waiting_for_player |-> None]

\* the property GameSession.current_player
current_player(g) ==
  IF g.active_players = <<>> THEN g.player_order[1]
  ELSE g.active_players[(g.current_player_idx % Len(g.active_players)) + 1]

\* add_player refusing only above 8 members
add_player_off_by_one(g, player_name) ==
  IF player_name \in DOMAIN g.players \/ g.game_started
  THEN [ok |-> FALSE, game |-> g]
  ELSE IF Cardinality(DOMAIN g.players) > 8
  THEN [ok |-> FALSE, game |-> g]
  ELSE [ok |-> TRUE,
        game |-> [g EXCEPT
           !.players = [n \in DOMAIN g.players \cup {player_name} |->
                          IF n = player_name THEN <<>> ELSE g.players[n]],
           !.player_order = Append(g.player_order, player_name)]]

\* GameSession.add_player: the session after the call and the value returned
add_player(g, player_name) ==
  IF player_name \in DOMAIN g.players \/ g.game_started
  THEN [ok |-> FALSE, game |-> g]
  ELSE IF Cardinality(DOMAIN g.players) >= 8
  THEN [ok |-> FALSE, game |-> g]
  ELSE [ok |-> TRUE,
        game |-> [g EXCEPT
           !.players = [n \in DOMAIN g.players \cup {player_name} |->
                          IF n = player_name THEN <<>> ELSE g.players[n]],
           !.player_order = Append(g.player_order, player_name)]]

\* remove_player taking the player out of active_players during a game
remove_player_leaves_game(g, player_name) ==
  IF player_name \notin DOMAIN g.players THEN g
  ELSE IF ~g.game_started
  THEN [g EXCEPT
          !.players = [n \in DOMAIN g.players \ {player_name} |-> g.players[n]],
          !.player_order = RemoveFirst(player_name, g.player_order)]
  ELSE LET g1 == [g EXCEPT !.connected_players = @ \ {player_name}]
       IN IF player_name = current_player(g1) /\ InSeq(player_name, g1.active_players)
          THEN [g1 EXCEPT !.waiting_for_player = player_name,
                          !.active_players = SelectSeq(@, LAMBDA p : p # player_name)]
          ELSE [g1 EXCEPT !.active_players = SelectSeq(@, LAMBDA p : p # player_name)]

\* GameSession.remove_player
remove_player(g, player_name) ==
  IF player_name \notin DOMAIN g.players THEN g
  ELSE IF ~g.game_started
  THEN [g EXCEPT
          !.players = [n \in DOMAIN g.players \ {player_name} |-> g.players[n]],
          !.player_order = RemoveFirst(player_name, g.player_order)]
  ELSE LET g1 == [g EXCEPT !.connected_players = @ \ {player_name}]
       IN IF player_name = current_player(g1) /\ InSeq(player_name, g1.active_players)
          THEN [g1 EXCEPT !.waiting_for_player = player_name]
          ELSE g1

\* GameSession.can_rejoin
can_rejoin(g, player_name) ==
  IF ~g.game_started THEN [ok |-> FALSE, message |-> "Game not started - use normal join"]
  ELSE IF g.finished THEN [ok |-> FALSE, message |-> "Game is finished"]
  ELSE IF ~InSeq(player_name, g.original_players)
  THEN [ok |-> FALSE, message |-> "You were not part of this game"]
  ELSE IF player_name \in g.connected_players
  THEN [ok |-> FALSE, message |-> "Player with this name is already connected"]
  ELSE [ok |-> TRUE, message |-> "OK"]

\* the insert_idx loop of player_reconnected: one past the last active player
\* met before the first one seated after original_idx
insert_index(g, original_idx) ==
  LET later == {i \in 1..Len(g.active_players) :
                  IndexOf(g.active_players[i], g.player_order) - 1 > original_idx}
  IN IF later = {} THEN Len(g.active_players)
     ELSE (CHOOSE i \in later : \A j \in later : i <= j) - 1

\* GameSession.player_reconnected.  raised: active_players.index(player_name)
\* raises ValueError when the awaited player is no longer active; the
\* statements before it have taken effect.
player_reconnected(g, player_name) ==
  LET g1 == [g EXCEPT !.connected_players = @ \cup {player_name}]
      g2 == IF /\ player_name \in DOMAIN g1.players
               /\ Len(g1.players[player_name]) > 0
               /\ ~InSeq(player_name, g1.active_players)
            THEN [g1 EXCEPT !.active_players =
                    InsertAt(@, insert_index(g1, IndexOf(player_name, g1.player_order) - 1),
                             player_name)]
            ELSE g1
  IN IF g2.waiting_for_player = player_name
     THEN IF InSeq(player_name, g2.active_players)
          THEN [raised |-> FALSE,
                game |-> [g2 EXCEPT
                   !.current_player_idx = IndexOf(player_name, g2.active_players) - 1,
                   !.waiting_for_player = None]]
          ELSE [raised |-> TRUE, game |-> g2]
     ELSE [raised |-> FALSE, game |-> g2]

\* reset_game keeping the list of winners
reset_game_keeps_winners(g) ==
  [g EXCEPT
     !.players = [n \in DOMAIN g.players |-> <<>>],
     !.active_players = <<>>,
     !.current_player_idx = 0,
     !.current_pile = <<>>,
     !.current_suit = None,
     !.original_suit = None,
     !.game_started = FALSE,
     !.finished = FALSE,
     !.kazhutha = None,
     !.discarded_cards = <<>>,
     !.round_in_progress = FALSE,
     !.last_action = NoAction,
     !.game_first_card_played = FALSE,
     !.resolved_pile = <<>>,
     !.resolved_winner = None,
     !.suit_was_broken = FALSE,
     !.taken_hand_cards = <<>>,
     !.taken_hand_from = None,
     !.taken_hand_by = None,
     !.original_players = <<>>,
     !.waiting_for_player = None]

\* GameSession.reset_game
reset_game(g) ==
  [g EXCEPT
     !.players = [n \in DOMAIN g.players |-> <<>>],
     !.active_players = <<>>,
     !.current_player_idx = 0,
     !.current_pile = <<>>,
     !.current_suit = None,
     !.original_suit = None,
     !.game_started = FALSE,
     !.finished = FALSE,
     !.kazhutha = None,
     !.winners = <<>>,
     !.discarded_cards = <<>>,
     !.round_in_progress = FALSE,
     !.last_action = NoAction,
     !.game_first_card_played = FALSE,
     !.resolved_pile = <<>>,
     !.resolved_winner = None,
     !.suit_was_broken = FALSE,
     !.taken_hand_cards = <<>>,
     !.taken_hand_from = None,
     !.taken_hand_by = None,
     !.original_players = <<>>,
     !.waiting_for_player = None]

\* GameSession._create_deck before the shuffles: suit-major over the enums,
\* with the first num_ranks ranks of each suit in play
ordered_deck(num_ranks) ==
  LET suits == SubSeq(SuitEnum, 5 - NumSuits, 4)
  IN [i \in 1..(NumSuits * num_ranks) |->
        Card(suits[((i - 1) \div num_ranks) + 1], RankEnum[((i - 1) % num_ranks) + 1])]

\* the number of cards the dealing loop of start_game gives the player at
\* 0-based position k of n, from a deck of num_cards
share(num_cards, n, k) == Cardinality({i \in 0..(num_cards - 1) : i % n = k})

\* every way of splitting cards into consecutive shares of the given sizes
RECURSIVE splits(_, _)
splits(cards, sizes) ==
  IF sizes = <<>> THEN {<<>>}
  ELSE UNION {{<<part>> \o rest : rest \in splits(cards \ part, Tail(sizes))} :
              part \in {h \in SUBSET cards : Cardinality(h) = Head(sizes)}}

\* the cards of a set in the order of sort_hand
RECURSIVE sorted_cards(_)
sorted_cards(cards) ==
  IF cards = {} THEN <<>>
  ELSE LET c == CHOOSE c \in cards : \A d \in cards \ {c} : KeyLess(c, d)
       IN <<c>> \o sorted_cards(cards \ {c})

\* GameSession._create_deck, for a deal to n players: the orders
\* random.shuffle can leave the deck in.  start_game sorts every hand after
\* dealing, so two orders that give every position the same cards give the
\* same session; one order is kept for each way of splitting the deck among
\* the n positions.  With fewer than 2 players start_game raises before the
\* deck is made.
_create_deck(num_ranks, n) ==
  LET deck == ordered_deck(num_ranks)
      sizes == [k \in 1..n |-> share(Len(deck), n, k - 1)]
  IN IF n < 2 THEN {deck}
     ELSE {[i \in 1..Len(deck) |->
              sorted_cards(split[((i - 1) % n) + 1])[((i - 1) \div n) + 1]] :
           split \in splits(Range(deck), sizes)}

\* the cards start_game appends to the hand of the player at 0-based position
\* k of player_names: deck[i] for the i with i % n = k, in deck order
dealt_to(deck, n, k) ==
  LET cnt == Cardinality({i \in 0..(Len(deck) - 1) : i % n = k})
  IN [j \in 1..cnt |-> deck[(j - 1) * n + k + 1]]

\* find_ace_of_spades with the position counted from 1
find_ace_of_spades_one_based(players, player_order) ==
  LET holders == {i \in 1..Len(player_order) :
                    InSeq(ace_of_spades, players[player_order[i]])}
  IN IF holders = {} THEN -1
     ELSE CHOOSE i \in holders : \A j \in holders : i <= j

\* the loop of start_game that looks for the Ace of Spades: the 0-based
\* position of the first player of player_order holding it, -1 if nobody does
find_ace_of_spades(players, player_order) ==
  LET holders == {i \in 1..Len(player_order) :
                    InSeq(ace_of_spades, players[player_order[i]])}
  IN IF holders = {} THEN -1
     ELSE (CHOOSE i \in holders : \A j \in holders : i <= j) - 1

\* GameSession.start_game with the deck _create_deck returned
start_game(g, deck) ==
  IF Cardinality(DOMAIN g.players) < 2
  THEN [ok |-> FALSE, error |-> "Need at least 2 players", game |-> g]
  ELSE
    LET player_names == g.player_order
        n == Len(player_names)
        hands == [name \in DOMAIN g.players |->
                    sort_hand(g.players[name]
                              \o dealt_to(deck, n, IndexOf(name, player_names) - 1))]
        i == find_ace_of_spades(hands, g.player_order)
    IN [ok |-> TRUE, error |-> None,
        game |-> [g EXCEPT
           !.players = hands,
           !.active_players = g.player_order,
           !.current_player_idx = IF i = -1 THEN @ ELSE i,
           !.game_started = TRUE,
           !.game_first_card_played = FALSE,
           !.original_players = g.player_order,
           !.connected_players = Range(g.player_order)]]

\* get_player_on_left looking to the other side
get_player_on_right(g, player_name) ==
  IF ~InSeq(player_name, g.active_players) THEN None
  ELSE LET idx == IndexOf(player_name, g.active_players) - 1
           next_idx == (idx + Len(g.active_players) - 1) % Len(g.active_players)
           left_player == g.active_players[next_idx + 1]
       IN IF left_player = player_name THEN None ELSE left_player

\* GameSession.get_player_on_left
get_player_on_left(g, player_name) ==
  IF ~InSeq(player_name, g.active_players) THEN None
  ELSE LET idx == IndexOf(player_name, g.active_players) - 1
           next_idx == (idx + 1) % Len(g.active_players)
           left_player == g.active_players[next_idx + 1]
       IN IF left_player = player_name THEN None ELSE left_player

\* GameSession._check_for_winners
_check_for_winners(g) ==
  LET emptied(p) == Len(g.players[p]) = 0 /\ ~InSeq(p, g.winners)
  IN [g EXCEPT
        !.winners = @ \o SelectSeq(g.active_players, emptied),
        !.active_players = SelectSeq(@, LAMBDA p : ~emptied(p))]

\* _check_game_over without the branch for no player left with cards
_check_game_over_one_left(g) ==
  LET players_with_cards == SelectSeq(g.active_players, LAMBDA p : Len(g.players[p]) > 0)
  IN IF Len(players_with_cards) = 1
     THEN [g EXCEPT !.finished = TRUE,
                    !.kazhutha = players_with_cards[1],
                    !.last_action = <<players_with_cards[1], "is the Kazhutha!">>]
     ELSE g

\* GameSession._check_game_over
_check_game_over(g) ==
  LET players_with_cards == SelectSeq(g.active_players, LAMBDA p : Len(g.players[p]) > 0)
  IN IF Len(players_with_cards) = 1
     THEN [g EXCEPT !.finished = TRUE,
                    !.kazhutha = players_with_cards[1],
                    !.last_action = <<players_with_cards[1], "is the Kazhutha!">>]
     ELSE IF Len(players_with_cards) = 0
     THEN [g EXCEPT !.finished = TRUE]
     ELSE g

\* _advance_to_next_active_player without the wrap to the first position
_advance_without_wrap(g) ==
  IF g.active_players = <<>> THEN g
  ELSE IF InSeq(current_player(g), g.active_players)
  THEN [g EXCEPT !.current_player_idx =
          (IndexOf(current_player(g), g.active_players) - 1) + 1]
  ELSE [g EXCEPT !.current_player_idx = 0]

\* GameSession._advance_to_next_active_player
_advance_to_next_active_player(g) ==
  IF g.active_players = <<>> THEN g
  ELSE IF InSeq(current_player(g), g.active_players)
  THEN [g EXCEPT !.current_player_idx =
          ((IndexOf(current_player(g), g.active_players) - 1) + 1) % Len(g.active_players)]
  ELSE [g EXCEPT !.current_player_idx = 0]

\* winning_play with min in place of max
winning_play_lowest(pile, original_suit) ==
  LET original_suit_cards == SelectSeq(pile, LAMBDA play : play[2].suit = original_suit)
      best == CHOOSE i \in 1..Len(original_suit_cards) :
                /\ \A j \in 1..Len(original_suit_cards) :
                     value(original_suit_cards[j][2]) >= value(original_suit_cards[i][2])
                /\ \A j \in 1..(i - 1) :
                     value(original_suit_cards[j][2]) > value(original_suit_cards[i][2])
  IN original_suit_cards[best]

\* the winner of _resolve_round: max(original_suit_cards, key=value), which
\* returns the first of the plays of the highest value
winning_play(pile, original_suit) ==
  LET original_suit_cards == SelectSeq(pile, LAMBDA play : play[2].suit = original_suit)
      best == CHOOSE i \in 1..Len(original_suit_cards) :
                /\ \A j \in 1..Len(original_suit_cards) :
                     value(original_suit_cards[j][2]) <= value(original_suit_cards[i][2])
                /\ \A j \in 1..(i - 1) :
                     value(original_suit_cards[j][2]) < value(original_suit_cards[i][2])
  IN original_suit_cards[best]

\* dispose_pile discarding the pile whether or not the suit was broken
dispose_pile_discards_always(g, winning_player, suit_broken) ==
  [g EXCEPT
     !.discarded_cards = @ \o PileCards(g.current_pile),
     !.last_action = <<"Cards discarded -", winning_player, "leads next!">>]

\* dispose_pile handing the pile to the player of its last card
dispose_pile_to_last_player(g, winning_player, suit_broken) ==
  IF suit_broken
  THEN [g EXCEPT
          !.players[g.current_pile[Len(g.current_pile)][1]] =
             sort_hand(@ \o PileCards(g.current_pile)),
          !.last_action = <<winning_player, "picks up the pile!">>]
  ELSE [g EXCEPT
          !.discarded_cards = @ \o PileCards(g.current_pile),
          !.last_action = <<"Cards discarded -", winning_player, "leads next!">>]

\* dispose_pile giving the pile to the winner whether or not the suit was
\* broken
dispose_pile_picks_up_always(g, winning_player, suit_broken) ==
  [g EXCEPT
     !.players[winning_player] = sort_hand(@ \o PileCards(g.current_pile)),
     !.last_action = <<winning_player, "picks up the pile!">>]

\* _resolve_round, "Give all cards to the player with highest card" or
\* "discard the cards"
dispose_pile(g, winning_player, suit_broken) ==
  IF suit_broken
  THEN [g EXCEPT
          !.players[winning_player] = sort_hand(@ \o PileCards(g.current_pile)),
          !.last_action = <<winning_player, "picks up the pile!">>]
  ELSE [g EXCEPT
          !.discarded_cards = @ \o PileCards(g.current_pile),
          !.last_action = <<"Cards discarded -", winning_player, "leads next!">>]

\* next_to_play giving the turn to the first active player when the winner
\* has left active_players
next_to_play_first_active(g, winning_player) ==
  IF InSeq(winning_player, g.active_players)
  THEN [g EXCEPT !.current_player_idx = IndexOf(winning_player, g.active_players) - 1]
  ELSE [g EXCEPT !.current_player_idx = 0]

\* _resolve_round, "Set the winning player as next to play": the player the
\* turn goes to once the emptied hands have left active_players
next_to_play(g, winning_player) ==
  IF InSeq(winning_player, g.active_players)
  THEN [g EXCEPT !.current_player_idx = IndexOf(winning_player, g.active_players) - 1]
  ELSE LET winner_original_idx == IndexOf(winning_player, g.player_order) - 1
           n == Len(g.player_order)
           hits == {i \in 1..(n - 1) :
                      InSeq(g.player_order[((winner_original_idx + i) % n) + 1],
                            g.active_players)}
       IN IF hits = {} THEN g
          ELSE LET i == CHOOSE i \in hits : \A j \in hits : i <= j
                   next_player == g.player_order[((winner_original_idx + i) % n) + 1]
               IN [g EXCEPT !.current_player_idx =
                                IndexOf(next_player, g.active_players) - 1]

\* GameSession._resolve_round
_resolve_round(g, suit_broken) ==
  IF g.current_pile = <<>> THEN g
  ELSE
    LET winning_player == winning_play(g.current_pile, g.original_suit)[1]
        g1 == [g EXCEPT !.resolved_pile = g.current_pile,
                        !.resolved_winner = winning_player,
                        !.suit_was_broken = suit_broken]
        g2 == dispose_pile(g1, winning_player, suit_broken)
        g3 == [g2 EXCEPT !.current_pile = <<>>,
                         !.current_suit = None,
                         !.original_suit = None,
                         !.round_in_progress = FALSE]
        g4 == _check_for_winners(g3)
        g5 == next_to_play(g4, winning_player)
    IN _check_game_over(g5)

\* take_hand_refused without the check for an open round
take_hand_refused_ignores_round(g, player_name) ==
  IF ~g.game_started \/ g.finished THEN "Game not in progress"
  ELSE IF ~InSeq(player_name, g.active_players) THEN "You are not an active player"
  ELSE IF player_name # current_player(g) THEN "You can only take hand on your turn"
  ELSE IF get_player_on_left(g, player_name) = None THEN "No player to take from"
  ELSE IF Len(g.players[get_player_on_left(g, player_name)]) = 0
  THEN "That player has no cards"
  ELSE None

\* take_hand_from_left, the checks before "Take all cards from the left
\* player": the message of the first one that fails, None if none does
take_hand_refused(g, player_name) ==
  IF ~g.game_started \/ g.finished THEN "Game not in progress"
  ELSE IF g.round_in_progress /\ Len(g.current_pile) > 0
  THEN "Cannot take hand during a round"
  ELSE IF ~InSeq(player_name, g.active_players) THEN "You are not an active player"
  ELSE IF player_name # current_player(g) THEN "You can only take hand on your turn"
  ELSE IF get_player_on_left(g, player_name) = None THEN "No player to take from"
  ELSE IF Len(g.players[get_player_on_left(g, player_name)]) = 0
  THEN "That player has no cards"
  ELSE None

\* GameSession.take_hand_from_left
take_hand_from_left(g, player_name) ==
  IF take_hand_refused(g, player_name) # None
  THEN [ok |-> FALSE, message |-> take_hand_refused(g, player_name),
        taken_from |-> None, game |-> g]
  ELSE
    LET left_player == get_player_on_left(g, player_name) IN
      LET taken_cards == g.players[left_player]
          g1 == [g EXCEPT
                   !.players = [n \in DOMAIN g.players |->
                                  IF n = player_name
                                  THEN sort_hand(g.players[n] \o taken_cards)
                                  ELSE IF n = left_player THEN <<>>
                                  ELSE g.players[n]],
                   !.taken_hand_cards = taken_cards,
                   !.taken_hand_from = left_player,
                   !.taken_hand_by = player_name,
                   !.winners = Append(@, left_player),
                   !.active_players = RemoveFirst(left_player, @)]
          g2 == _check_game_over(g1)
          g3 == IF InSeq(player_name, g2.active_players)
                THEN [g2 EXCEPT !.current_player_idx =
                                   IndexOf(player_name, g2.active_players) - 1]
                ELSE g2
      IN [ok |-> TRUE, message |-> <<"Took", Len(taken_cards), "cards from", left_player>>,
          taken_from |-> left_player,
          game |-> [g3 EXCEPT !.resolved_pile = <<>>,
                              !.resolved_winner = None,
                              !.last_action = <<player_name, "took", left_player, "hand">>]]

\* play_card, "First card of the game must be Ace of Spades": is the card refused
first_card_refused(g, card) ==
  ~g.game_first_card_played /\ (card.suit # "SPADES" \/ card.rank # "ACE")

\* open_round leaving current_suit as it was
open_round_without_current_suit(g, card) ==
  IF g.current_pile = <<>>
  THEN [g EXCEPT !.original_suit = card.suit,
                 !.round_in_progress = TRUE,
                 !.resolved_pile = <<>>,
                 !.resolved_winner = None,
                 !.taken_hand_cards = <<>>,
                 !.taken_hand_from = None,
                 !.taken_hand_by = None]
  ELSE g

\* play_card, "Starting a new round"
open_round(g, card) ==
  IF g.current_pile = <<>>
  THEN [g EXCEPT !.original_suit = card.suit,
                 !.current_suit = card.suit,
                 !.round_in_progress = TRUE,
                 !.resolved_pile = <<>>,
                 !.resolved_winner = None,
                 !.taken_hand_cards = <<>>,
                 !.taken_hand_from = None,
                 !.taken_hand_by = None]
  ELSE g

\* f"You must play a {self.current_suit.value}"
must_play_message(suit) ==
  CASE suit = "HEARTS" -> "You must play a HEARTS"
    [] suit = "DIAMONDS" -> "You must play a DIAMONDS"
    [] suit = "CLUBS" -> "You must play a CLUBS"
    [] suit = "SPADES" -> "You must play a SPADES"

\* suit_refused with all() in place of any()
suit_refused_all(g, player_hand, card) ==
  /\ g.current_suit # None
  /\ \A i \in 1..Len(player_hand) : player_hand[i].suit = g.current_suit
  /\ card.suit # g.current_suit

\* play_card, "Must follow suit if possible": is the card refused
suit_refused(g, player_hand, card) ==
  /\ g.current_suit # None
  /\ \E i \in 1..Len(player_hand) : player_hand[i].suit = g.current_suit
  /\ card.suit # g.current_suit

\* round_complete one player short
round_complete_one_short(g) ==
  LET players_who_played == {g.current_pile[i][1] : i \in 1..Len(g.current_pile)}
  IN Cardinality(players_who_played) >= Len(g.active_players) - 1

\* play_card, "Check if round is complete (all active players have played)"
round_complete(g) ==
  LET players_who_played == {g.current_pile[i][1] : i \in 1..Len(g.current_pile)}
  IN Cardinality(players_who_played) = Len(g.active_players)

\* play_card, from "Play the card" on
put_card(g, player_name, card) ==
  LET g1 == [g EXCEPT
               !.players[player_name] = RemoveFirst(card, @),
               !.current_pile = Append(@, <<player_name, card>>),
               !.last_action = <<player_name, "played", card.rank, "of", card.suit>>]
  IN IF card.suit # g1.original_suit THEN _resolve_round(g1, TRUE)
     ELSE IF round_complete(g1) THEN _resolve_round(g1, FALSE)
     ELSE _advance_to_next_active_player(g1)

\* GameSession.play_card: the value returned and the session after the call.
\* The first-card flag and the round-opening fields are assigned before the
\* suit check, so a call refused there returns with them assigned.
play_card(g, player_name, card) ==
  IF ~g.game_started \/ g.finished
  THEN [ok |-> FALSE, error |-> "Game not in progress", game |-> g]
  ELSE IF player_name # current_player(g)
  THEN [ok |-> FALSE, error |-> "Not your turn", game |-> g]
  ELSE IF ~InSeq(player_name, g.active_players)
  THEN [ok |-> FALSE, error |-> "You are not an active player", game |-> g]
  ELSE IF ~InSeq(card, g.players[player_name])
  THEN [ok |-> FALSE, error |-> "Card not in your hand", game |-> g]
  ELSE IF first_card_refused(g, card)
  THEN [ok |-> FALSE, error |-> "First card must be Ace of Spades", game |-> g]
  ELSE
    LET g1 == [g EXCEPT !.game_first_card_played = TRUE]
        g2 == open_round(g1, card)
    IN IF suit_refused(g2, g2.players[player_name], card)
       THEN [ok |-> FALSE, error |-> must_play_message(g2.current_suit), game |-> g2]
       ELSE [ok |-> TRUE, error |-> None, game |-> put_card(g2, player_name, card)]

(***************************************************************************)
(* Request handlers.  A socket can be opened for any name while the        *)
(* session is in the lobby, where opening one changes nothing in the       *)
(* session, so a WebSocketDisconnect for a name can arrive in any state.   *)
(***************************************************************************)
AllNames == <<"A", "B", "C", "D", "E", "F", "G", "H", "I", "J">>

Names == {AllNames[i] : i \in 1..NumNames}

Droppers == {AllNames[i] : i \in 1..NumDroppers}

RedealNames == {AllNames[i] : i \in 1..NumRedealNames}

LobbyNames == {AllNames[i] : i \in 1..NumLobbyNames}

LobbyDroppers == {AllNames[i] : i \in 1..NumLobbyDroppers}

\* the cards a session holds: hands, pile and discard pile
AllCards(g) ==
  LET RECURSIVE Hands(_)
      Hands(order) == IF order = <<>> THEN <<>>
                      ELSE g.players[Head(order)] \o Hands(Tail(order))
  IN Hands(g.player_order) \o PileCards(g.current_pile) \o g.discarded_cards

\* create_game: the session of the registry, created by the first name
Init ==
  /\ game = GameSession(AllNames[1])
  /\ first_card = <<>>

\* POST /api/game/join
join_game(player_name) ==
  /\ IF game.game_started
     THEN IF can_rejoin(game, player_name).ok
          THEN game' = player_reconnected(game, player_name).game
          ELSE UNCHANGED game
     ELSE game' = add_player(game, player_name).game
  /\ UNCHANGED first_card

\* POST /api/game/start, the deck having num_ranks ranks of each suit
api_start_game(player_name, num_ranks) ==
  IF game.host_name # player_name THEN UNCHANGED vars
  ELSE \E deck \in _create_deck(num_ranks, Len(game.player_order)) :
         LET r == start_game(game, deck)
         IN /\ game' = r.game
            /\ first_card' = IF r.ok THEN <<>> ELSE first_card

\* POST /api/game/play-again
play_again(player_name) ==
  IF ~game.finished THEN UNCHANGED vars
  ELSE IF game.host_name # player_name THEN UNCHANGED vars
  ELSE /\ game' = reset_game(game)
       /\ first_card' = <<>>

\* POST /api/game/play
api_play_card(player_name, card) ==
  LET r == play_card(game, player_name, card)
  IN /\ game' = r.game
     /\ first_card' = IF r.ok /\ first_card = <<>> THEN <<card>> ELSE first_card

\* POST /api/game/take-hand
take_hand(player_name) ==
  /\ game' = take_hand_from_left(game, player_name).game
  /\ UNCHANGED first_card

\* websocket_endpoint up to the receive loop
websocket_connect(player_name) ==
  /\ IF game.game_started /\ InSeq(player_name, game.original_players)
     THEN game' = player_reconnected(game, player_name).game
     ELSE UNCHANGED game
  /\ UNCHANGED first_card

\* websocket_endpoint, the WebSocketDisconnect handler
websocket_disconnect(player_name) ==
  /\ game' = remove_player(game, player_name)
  /\ UNCHANGED first_card

\* the clients other than the host are interchangeable: in the lobby a name
\* is taken to join once the name before it is seated
joins_in_turn(player_name) ==
  ~game.game_started =>
    \A i \in 3..Len(AllNames) :
      player_name = AllNames[i] => AllNames[i - 1] \in DOMAIN game.players

\* Spec: every handler, called by the clients Names with cards of the deck of
\* NumRanks ranks per suit.  The host presses start in the lobby only, and
\* the sockets that drop are those of Droppers.
Next ==
  \/ \E player_name \in Names : joins_in_turn(player_name) /\ join_game(player_name)
  \/ \E player_name \in Names :
        ~game.game_started /\ api_start_game(player_name, NumRanks)
  \/ \E player_name \in Names : play_again(player_name)
  \/ \E player_name \in Names, card \in Cards(NumRanks) :
        api_play_card(player_name, card)
  \/ \E player_name \in Names : take_hand(player_name)
  \/ \E player_name \in Names : websocket_connect(player_name)
  \/ \E player_name \in Droppers : websocket_disconnect(player_name)

Spec == Init /\ [][Next]_vars

\* SpecRedeal: the host also presses start on a session that is already
\* started, which start_game accepts: it deals one more deck into the hands.
\* Fewer clients and a smaller deck, and at most MaxDeals decks in a session.
NextRedeal ==
  \/ \E player_name \in RedealNames :
        joins_in_turn(player_name) /\ join_game(player_name)
  \/ \E player_name \in RedealNames :
        /\ Len(AllCards(game)) < MaxDeals * NumSuits * RedealRanks
        /\ api_start_game(player_name, RedealRanks)
  \/ \E player_name \in RedealNames : play_again(player_name)
  \/ \E player_name \in RedealNames, card \in Cards(RedealRanks) :
        api_play_card(player_name, card)
  \/ \E player_name \in RedealNames : take_hand(player_name)
  \/ \E player_name \in RedealNames : websocket_connect(player_name)
  \/ \E player_name \in Droppers : websocket_disconnect(player_name)

SpecRedeal == Init /\ [][NextRedeal]_vars

\* SpecLobby: the handlers on a session the host does not start, called by
\* the clients LobbyNames, more than a session admits.
NextLobby ==
  \/ \E player_name \in LobbyNames :
        joins_in_turn(player_name) /\ join_game(player_name)
  \/ \E player_name \in LobbyNames : play_again(player_name)
  \/ \E player_name \in LobbyNames, card \in Cards(NumRanks) :
        api_play_card(player_name, card)
  \/ \E player_name \in LobbyNames : take_hand(player_name)
  \/ \E player_name \in LobbyNames : websocket_connect(player_name)
  \/ \E player_name \in LobbyDroppers : websocket_disconnect(player_name)

SpecLobby == Init /\ [][NextLobby]_vars

\* _create_deck with the last NumPlaySuits suits and the first PlayRanks
\* ranks, before the shuffles
play_deck ==
  [i \in 1..(NumPlaySuits * PlayRanks) |->
     Card(SuitEnum[(4 - NumPlaySuits) + ((i - 1) \div PlayRanks) + 1],
          RankEnum[((i - 1) % PlayRanks) + 1])]

\* the orders random.shuffle can leave play_deck in for a deal to n players,
\* one for each way of splitting it among the n positions
_create_play_deck(n) ==
  LET sizes == [k \in 1..n |-> share(Len(play_deck), n, k - 1)]
  IN IF n < 2 THEN {play_deck}
     ELSE {[i \in 1..Len(play_deck) |->
              sorted_cards(split[((i - 1) % n) + 1])[((i - 1) \div n) + 1]] :
           split \in splits(Range(play_deck), sizes)}

\* POST /api/game/start, the deck being play_deck
api_start_play(player_name) ==
  IF game.host_name # player_name THEN UNCHANGED vars
  ELSE \E deck \in _create_play_deck(Len(game.player_order)) :
         LET r == start_game(game, deck)
         IN /\ game' = r.game
            /\ first_card' = IF r.ok THEN <<>> ELSE first_card

\* SpecPlay: the clients Names join, the host starts from the lobby with a
\* deck of NumPlaySuits suits, and the players post plays and take-hands,
\* nobody's socket dropping.
NextPlay ==
  \/ \E player_name \in Names : joins_in_turn(player_name) /\ join_game(player_name)
  \/ \E player_name \in Names : ~game.game_started /\ api_start_play(player_name)
  \/ \E player_name \in Names, card \in Range(play_deck) :
        api_play_card(player_name, card)
  \/ \E player_name \in Names : take_hand(player_name)

SpecPlay == Init /\ [][NextPlay]_vars

(***************************************************************************)
(* Properties.  A play_card call is described by its caller and card; the  *)
(* calls considered in a state are all those with a name of Names and a    *)
(* card of the deck.                                                       *)
(***************************************************************************)
\* the result of play_card(player_name, card) in the current state
Played(player_name, card) == play_card(game, player_name, card)

\* the pile with the play added
FullPile(player_name, card) == Append(game.current_pile, <<player_name, card>>)

\* the accepted call resolved the round: the whole pile was recorded as the
\* last resolved pile
Resolved(player_name, card) ==
  /\ Played(player_name, card).ok
  /\ Played(player_name, card).game.resolved_pile = FullPile(player_name, card)

\* number of times x occurs in seq
Count(x, seq) == Cardinality({i \in 1..Len(seq) : seq[i] = x})

\* cards holds every card of a deck exactly once, the deck being one of those
\* dealt from: num_ranks ranks of each suit
IsOneDeck(cards) ==
  \E num_ranks \in {NumRanks, RedealRanks} :
    /\ Len(cards) = NumSuits * num_ranks
    /\ \A c \in Cards(num_ranks) : Count(c, cards) = 1

\* C1: from a successful start_game until the reset, the hands, the current
\* pile and the discard pile together hold every card of the deck exactly
\* once, whatever plays, take-hands, disconnects and reconnects have been
\* made.
C1_CardConservation ==
  game.game_started => IsOneDeck(AllCards(game))

\* C2: a step that deals (the only steps after which the session holds more
\* cards than before) ends with the Ace of Spades in the hand of the current
\* player, active_players[current_player_idx].
C2_StarterHoldsAceOfSpades ==
  [][Len(AllCards(game')) > Len(AllCards(game))
       => /\ game'.current_player_idx < Len(game'.active_players)
          /\ InSeq(ace_of_spades,
                   game'.players[game'.active_players[game'.current_player_idx + 1]])]_vars

\* C2 witness: three players have just been dealt to and the player in the
\* last seat is to move
C2_Witness ==
  /\ game.game_started
  /\ first_card = <<>>
  /\ game.last_action = NoAction
  /\ Len(game.player_order) = 3
  /\ game.current_player_idx = 2
  /\ InSeq(ace_of_spades, game.players[game.player_order[3]])

\* C3: in every game (every start_game that deals) the first card play_card
\* accepts is the Ace of Spades, and once a card has been accepted no later
\* play of that game is refused for not being the Ace of Spades.
C3_FirstCardIsAceOfSpades ==
  /\ first_card # <<>> => first_card[1] = ace_of_spades
  /\ first_card # <<>> =>
       \A player_name \in Names, card \in Cards(NumRanks) :
         Played(player_name, card).error # "First card must be Ace of Spades"

\* the error the ordered checks of play_card give a call, None if it passes all
ExpectedError(player_name, card) ==
  IF ~game.game_started \/ game.finished THEN "Game not in progress"
  ELSE IF player_name # current_player(game) THEN "Not your turn"
  ELSE IF ~InSeq(player_name, game.active_players) THEN "You are not an active player"
  ELSE IF ~InSeq(card, game.players[player_name]) THEN "Card not in your hand"
  ELSE IF first_card = <<>> /\ card # ace_of_spades
  THEN "First card must be Ace of Spades"
  ELSE IF /\ game.current_pile # <<>>
          /\ \E c \in Range(game.players[player_name]) :
               c.suit = game.current_pile[1][2].suit
          /\ card.suit # game.current_pile[1][2].suit
  THEN must_play_message(game.current_pile[1][2].suit)
  ELSE None

\* C4: a play_card call that is rejected leaves the session as it was, and
\* the error is that of the first check that fails, in the order: game in
\* progress, caller's turn, caller active, card in hand, first card, suit.
C4_RejectedPlayChangesNothing ==
  \A player_name \in Names, card \in Cards(NumRanks) :
    /\ Played(player_name, card).error = ExpectedError(player_name, card)
    /\ ~Played(player_name, card).ok => Played(player_name, card).game = game

\* C5: a play accepted while the pile is non-empty either has the suit of the
\* card that opened the round, or is made from a hand that held no card of
\* that suit.
C5_SuitFollowing ==
  \A player_name \in Names, card \in Cards(NumRanks) :
    Played(player_name, card).ok /\ game.current_pile # <<>>
      => \/ card.suit = game.current_pile[1][2].suit
         \/ \A c \in Range(game.players[player_name]) :
              c.suit # game.current_pile[1][2].suit

\* C5 witness: a round of three plays has just been resolved by an off-suit
\* card, after two cards of the opening suit
C5_Witness ==
  /\ Len(game.resolved_pile) = 3
  /\ game.suit_was_broken
  /\ game.resolved_pile[2][2].suit = game.resolved_pile[1][2].suit
  /\ game.resolved_pile[3][2].suit # game.resolved_pile[1][2].suit

\* C6: when a play resolves the round, the recorded winner played a card of
\* the opening suit that no card of the opening suit in the pile outranks,
\* and the pile and the round suit are cleared.
C6_RoundWinner ==
  \A player_name \in Names, card \in Cards(NumRanks) :
    Resolved(player_name, card) =>
      LET pile == FullPile(player_name, card)
          after == Played(player_name, card).game
      IN /\ \E i \in 1..Len(pile) :
              /\ pile[i][1] = after.resolved_winner
              /\ pile[i][2].suit = pile[1][2].suit
              /\ \A j \in 1..Len(pile) :
                   pile[j][2].suit = pile[1][2].suit
                     => value(pile[j][2]) <= value(pile[i][2])
         /\ after.current_pile = <<>>
         /\ after.current_suit = None
         /\ after.original_suit = None

\* C6 witness: a resolved round of three plays whose winner played neither
\* first nor last
C6_Witness ==
  /\ Len(game.resolved_pile) = 3
  /\ game.resolved_winner = game.resolved_pile[2][1]
  /\ game.current_pile = <<>>

BagOf(seq) == [c \in Cards(NumRanks) |-> Count(c, seq)]

\* C8: when a play resolves the round with the suit broken, the winner's hand
\* gains exactly the cards of the pile, no other hand gains a card and the
\* discard pile is unchanged; when it resolves the round clean, the cards of
\* the pile are appended to the discard pile and no hand gains a card.
C8_PileDisposition ==
  \A player_name \in Names, card \in Cards(NumRanks) :
    Resolved(player_name, card) =>
      LET pile == FullPile(player_name, card)
          after == Played(player_name, card).game
          \* the hands once the card has left the caller's hand
          hand(q) == IF q = player_name THEN RemoveFirst(card, game.players[q])
                     ELSE game.players[q]
      IN IF after.suit_was_broken
         THEN /\ \A q \in DOMAIN game.players :
                   BagOf(after.players[q]) =
                     IF q = after.resolved_winner
                     THEN BagOf(hand(q) \o PileCards(pile))
                     ELSE BagOf(hand(q))
              /\ after.discarded_cards = game.discarded_cards
         ELSE /\ \A q \in DOMAIN game.players : after.players[q] = hand(q)
              /\ after.discarded_cards = game.discarded_cards \o PileCards(pile)
              /\ Len(after.discarded_cards) = Len(game.discarded_cards) + Len(pile)

\* C8 witness (clean): three players followed suit and the three cards were
\* discarded
C8_Witness ==
  /\ Len(game.resolved_pile) = 3
  /\ ~game.suit_was_broken
  /\ Len(game.discarded_cards) >= 3
  /\ game.current_pile = <<>>

\* half of the deck: the hand each of two players is dealt (26 of 52)
HalfDeck == (NumSuits * NumRanks) \div 2

\* the state of the two-player opening scenario: two players have just been
\* dealt half of the deck each, a is to move and holds the Ace of Spades and b
\* holds no spade
OpeningScenario(a, b) ==
  /\ game.game_started /\ ~game.finished
  /\ first_card = <<>>
  /\ game.current_pile = <<>>
  /\ game.active_players \in {<<a, b>>, <<b, a>>}
  /\ current_player(game) = a
  /\ Len(game.players[a]) = HalfDeck /\ Len(game.players[b]) = HalfDeck
  /\ InSeq(ace_of_spades, game.players[a])
  /\ \A c \in Range(game.players[b]) : c.suit # "SPADES"

\* the session after a plays the Ace of Spades and b then plays card
AfterOpening(a, b, card) ==
  play_card(play_card(game, a, ace_of_spades).game, b, card)

\* what the scenario says of both plays but the hand counts: both are
\* accepted, the round resolves with the suit broken, a receives both cards
\* and is the current player
OpeningOutcome(a, b, card) ==
  LET after == AfterOpening(a, b, card).game
  IN /\ play_card(game, a, ace_of_spades).ok
     /\ AfterOpening(a, b, card).ok
     /\ after.resolved_pile = <<<<a, ace_of_spades>>, <<b, card>>>>
     /\ after.suit_was_broken
     /\ after.resolved_winner = a
     /\ InSeq(ace_of_spades, after.players[a]) /\ InSeq(card, after.players[a])
     /\ current_player(after) = a
     /\ ~after.finished

\* C9 as stated: in the opening scenario, after a plays the Ace of Spades and
\* b any card, a has received both cards, a's hand count is that of the deal
\* (26) and b's is one less (25), and a is the current player.
C9_OpeningScenarioAsStated ==
  \A a \in Names, b \in Names :
    OpeningScenario(a, b) =>
      \A card \in Range(game.players[b]) :
        /\ OpeningOutcome(a, b, card)
        /\ Len(AfterOpening(a, b, card).game.players[a]) = HalfDeck
        /\ Len(AfterOpening(a, b, card).game.players[b]) = HalfDeck - 1

\* C9 amended: as stated, but a's hand count is one more than that of the deal
\* (27: 25 left after the Ace of Spades was played, plus the two cards picked
\* up).
C9_OpeningScenario ==
  \A a \in Names, b \in Names :
    OpeningScenario(a, b) =>
      \A card \in Range(game.players[b]) :
        /\ OpeningOutcome(a, b, card)
        /\ Len(AfterOpening(a, b, card).game.players[a]) = HalfDeck + 1
        /\ Len(AfterOpening(a, b, card).game.players[b]) = HalfDeck - 1

\* C9 witness: the scenario has been played: two players, the first round
\* was opened by the Ace of Spades and broken by the other player, who held no
\* spade, and the hands are of HalfDeck + 1 and HalfDeck - 1 cards
C9_Witness ==
  /\ Len(game.player_order) = 2
  /\ Len(game.resolved_pile) = 2
  /\ game.resolved_pile[1][2] = ace_of_spades
  /\ game.suit_was_broken
  /\ game.discarded_cards = <<>>
  /\ Len(game.players[game.resolved_pile[1][1]]) = HalfDeck + 1
  /\ Len(game.players[game.resolved_pile[2][1]]) = HalfDeck - 1
  /\ \A c \in Range(game.players[game.resolved_pile[2][1]]) : c.suit # "SPADES"
  /\ current_player(game) = game.resolved_pile[1][1]

\* the first player after seat's place in player_order, cyclically, who is in
\* active_players of g
NextSeated(g, seat) ==
  LET n == Len(g.player_order)
      at(k) == g.player_order[((IndexOf(seat, g.player_order) - 1 + k) % n) + 1]
      k == CHOOSE k \in 1..n : /\ InSeq(at(k), g.active_players)
                               /\ \A j \in 1..(k - 1) : ~InSeq(at(j), g.active_players)
  IN at(k)

\* C10: when a play resolves the round and the game is not over, the player
\* to move is the round winner if still active, and otherwise the first
\* active player after the winner's seat, going cyclically through
\* player_order.
C10_NextToMove ==
  \A player_name \in Names, card \in Cards(NumRanks) :
    Resolved(player_name, card) /\ ~Played(player_name, card).game.finished =>
      LET after == Played(player_name, card).game
      IN /\ after.current_player_idx < Len(after.active_players)
         /\ after.active_players[after.current_player_idx + 1] =
              IF InSeq(after.resolved_winner, after.active_players)
              THEN after.resolved_winner
              ELSE NextSeated(after, after.resolved_winner)

\* C10 witness: the round winner emptied their hand, the game goes on, and
\* the turn went to a player who is not first in active_players
C10_Witness ==
  /\ game.resolved_pile # <<>>
  /\ game.current_pile = <<>>
  /\ ~game.finished
  /\ ~InSeq(game.resolved_winner, game.active_players)
  /\ game.current_player_idx > 0

\* the result of take_hand_from_left(player_name) in the current state
Taken(player_name) == take_hand_from_left(game, player_name)

\* the active players of g who hold cards
holders(g) == {p \in Range(g.active_players) : Len(g.players[p]) > 0}

\* finished and kazhutha of g are what the hands of the active players say:
\* finished iff at most one active player holds cards, kazhutha set iff
\* exactly one does, and then it is that player
GameOverDecided(g) ==
  /\ g.finished <=> Cardinality(holders(g)) <= 1
  /\ g.kazhutha # None <=> Cardinality(holders(g)) = 1
  /\ g.kazhutha # None => g.kazhutha \in holders(g)

\* C11 as stated: in every state of a started session finished is true iff at
\* most one active player holds cards, and kazhutha is set iff exactly one
\* does, being that player.
C11_GameOverAsStated ==
  game.game_started => GameOverDecided(game)

\* C11 amended: finished and kazhutha are decided where the game-over check
\* runs.  After every play that resolves the round and after every successful
\* take-hand, finished is true iff at most one active player holds cards and
\* kazhutha is set iff exactly one does, being that player; a play that leaves
\* the round open leaves finished and kazhutha as they were.
C11_GameOverAtResolution ==
  \A player_name \in Names :
    /\ \A card \in Cards(NumRanks) :
         Played(player_name, card).ok =>
           IF Resolved(player_name, card)
           THEN GameOverDecided(Played(player_name, card).game)
           ELSE /\ Played(player_name, card).game.finished = game.finished
                /\ Played(player_name, card).game.kazhutha = game.kazhutha
    /\ Taken(player_name).ok => GameOverDecided(Taken(player_name).game)

\* C11 witness: a round was resolved clean by the last cards of all but one
\* of three players, and the game is finished with the third as kazhutha
C11_Witness ==
  /\ game.finished
  /\ Len(game.resolved_pile) = 3
  /\ ~game.suit_was_broken
  /\ game.kazhutha # None
  /\ holders(game) = {game.kazhutha}
  /\ Len(game.winners) = 2

\* no name occurs twice in seq
NoDuplicates(seq) == \A i, j \in 1..Len(seq) : seq[i] = seq[j] => i = j

\* C12: within one game (every step but a reset) the names already in
\* winners stay in winners in the same order, winners holds no name twice and
\* no name of winners is in active_players, whatever the step: a play, a
\* take-hand, a disconnect, a reconnect or a start.
C12_WinnersMonotonic ==
  [][game.game_started /\ game'.game_started
       => /\ Len(game.winners) <= Len(game'.winners)
          /\ SubSeq(game'.winners, 1, Len(game.winners)) = game.winners
          /\ NoDuplicates(game'.winners)
          /\ Range(game'.winners) \cap Range(game'.active_players) = {}]_vars

\* the player after player_name in active_players, cyclically
LeftOf(player_name) ==
  game.active_players[(IndexOf(player_name, game.active_players)
                         % Len(game.active_players)) + 1]

\* C13: a successful take_hand_from_left by player_name takes from the left
\* neighbour: the taker's hand grows by the neighbour's hand, the neighbour's
\* hand is empty, the neighbour is appended to winners and removed from
\* active_players, no other hand changes, and unless the game is thereby
\* finished the taker is still the current player.
C13_TakeHand ==
  \A player_name \in Names :
    Taken(player_name).ok =>
      LET after == Taken(player_name).game
          left_player == LeftOf(player_name)
      IN /\ Taken(player_name).taken_from = left_player
         /\ left_player # player_name
         /\ Len(after.players[player_name]) =
              Len(game.players[player_name]) + Len(game.players[left_player])
         /\ BagOf(after.players[player_name]) =
              BagOf(game.players[player_name] \o game.players[left_player])
         /\ after.players[left_player] = <<>>
         /\ \A q \in DOMAIN game.players \ {player_name, left_player} :
              after.players[q] = game.players[q]
         /\ after.winners = Append(game.winners, left_player)
         /\ ~InSeq(left_player, after.active_players)
         /\ after.active_players = RemoveFirst(left_player, game.active_players)
         /\ ~after.finished => current_player(after) = player_name

\* C13 witness: in a game of three a hand has been taken from the player in
\* the first seat by the player in the last, the game goes on and the taker
\* is to move
C13_Witness ==
  /\ game.game_started /\ ~game.finished
  /\ Len(game.player_order) = 3
  /\ game.taken_hand_by = game.player_order[3]
  /\ game.taken_hand_from = game.player_order[1]
  /\ game.players[game.taken_hand_from] = <<>>
  /\ game.winners = <<game.taken_hand_from>>
  /\ current_player(game) = game.taken_hand_by

\* the claim's conditions for refusing take_hand_from_left(player_name)
TakeHandForbidden(player_name) ==
  \/ ~game.game_started \/ game.finished
  \/ game.current_pile # <<>>
  \/ ~InSeq(player_name, game.active_players)
  \/ player_name # current_player(game)
  \/ LeftOf(player_name) = player_name
  \/ game.players[LeftOf(player_name)] = <<>>

\* C14: take_hand_from_left is rejected and leaves the session unchanged
\* whenever the game is not in progress, the pile is not empty, the caller
\* is not active or not the current player, the caller has no left neighbour
\* other than themselves, or the left neighbour's hand is empty.
C14_TakeHandRejected ==
  \A player_name \in Names :
    /\ TakeHandForbidden(player_name) => ~Taken(player_name).ok
    /\ ~Taken(player_name).ok => Taken(player_name).game = game

\* C14 witness: the player to move, whose left neighbour holds cards, asks
\* for the neighbour's hand while a round is open and is refused
C14_Witness ==
  \E player_name \in Names :
    /\ game.game_started /\ ~game.finished
    /\ game.current_pile # <<>>
    /\ player_name = current_player(game)
    /\ InSeq(player_name, game.active_players)
    /\ LeftOf(player_name) # player_name
    /\ game.players[LeftOf(player_name)] # <<>>
    /\ ~Taken(player_name).ok

\* it is player_name's turn: player_name is active_players[current_player_idx]
IsTurnOf(player_name) ==
  /\ game.active_players # <<>>
  /\ game.active_players[(game.current_player_idx % Len(game.active_players)) + 1]
       = player_name

\* C15: on a started session remove_player(player_name) changes nothing but
\* the connected flag of player_name, which it clears, and waiting_for_player,
\* which it sets to player_name when it is player_name's turn and leaves as
\* it is otherwise: players, hands, active_players, current_player_idx, pile
\* and winners are as before.
C15_RemovePlayerInGame ==
  \A player_name \in Names :
    game.game_started =>
      remove_player(game, player_name) =
        [game EXCEPT
           !.connected_players = @ \ {player_name},
           !.waiting_for_player = IF IsTurnOf(player_name) THEN player_name ELSE @]

\* C15 witness: the player to move has disconnected in the middle of a
\* round and is waited for
C15_Witness ==
  /\ game.game_started /\ ~game.finished
  /\ game.current_pile # <<>>
  /\ game.waiting_for_player # None
  /\ game.waiting_for_player \notin game.connected_players
  /\ game.waiting_for_player = current_player(game)
  /\ game.players[game.waiting_for_player] # <<>>

\* the claim's conditions for a reconnect of player_name to be legal
ReconnectLegal(player_name) ==
  /\ game.game_started /\ ~game.finished
  /\ InSeq(player_name, game.original_players)
  /\ player_name \notin game.connected_players

\* C16: on a started session a reconnect that is not legal (the session is
\* finished, the player is not in original_players or the player is marked
\* connected) leaves the session unchanged, whether it comes through
\* POST /api/game/join or through the websocket.
C16_ReconnectGuarded ==
  [][\A player_name \in Names :
       /\ game.game_started
       /\ ~ReconnectLegal(player_name)
       /\ join_game(player_name) \/ websocket_connect(player_name)
       => game' = game]_vars

\* the result of player_reconnected(player_name) in the current state
Reconnected(player_name) == player_reconnected(game, player_name)

\* what C17 says of the session after a reconnect of player_name
ReconnectEffect(player_name) ==
  LET after == Reconnected(player_name).game
  IN /\ after.connected_players = game.connected_players \cup {player_name}
     /\ after.players = game.players
     /\ after.current_pile = game.current_pile
     /\ after.discarded_cards = game.discarded_cards
     /\ after.winners = game.winners
     /\ IF game.waiting_for_player = player_name
        THEN /\ after.waiting_for_player = None
             /\ InSeq(player_name, after.active_players)
             /\ after.current_player_idx = IndexOf(player_name, after.active_players) - 1
        ELSE /\ after.waiting_for_player = game.waiting_for_player
             /\ after.current_player_idx = game.current_player_idx

\* C17: a reconnect of a player who may reconnect (session started and not
\* finished, player in original_players and not connected) completes, marks
\* the player connected and changes no hand, pile, discard or winners; if the
\* player was waited for, waiting_for_player is cleared and the turn pointer
\* is the player's index in active_players, and otherwise both are unchanged.
C17_ReconnectEffect ==
  \A player_name \in Names :
    ReconnectLegal(player_name) =>
      /\ ~Reconnected(player_name).raised
      /\ ReconnectEffect(player_name)

\* what C18 says of the session after a reset: host and roster kept, hands
\* empty, lobby phase, the fields of the game cleared, and start_game accepted
ResetEffect(before, after) ==
  /\ after.host_name = before.host_name
  /\ DOMAIN after.players = DOMAIN before.players
  /\ after.player_order = before.player_order
  /\ \A n \in DOMAIN after.players : after.players[n] = <<>>
  /\ ~after.game_started /\ ~after.finished
  /\ after.active_players = <<>>
  /\ after.winners = <<>>
  /\ after.kazhutha = None
  /\ after.current_pile = <<>>
  /\ after.discarded_cards = <<>>
  /\ after.taken_hand_cards = <<>>
  /\ after.taken_hand_from = None
  /\ after.taken_hand_by = None
  /\ after.waiting_for_player = None
  /\ start_game(after, ordered_deck(NumRanks)).ok
  /\ start_game(after, ordered_deck(NumRanks)).game.active_players = before.player_order

\* C18: a play-again request on a session that is not finished changes
\* nothing; the host's request on a finished session resets it: host and
\* player names are kept, every hand is empty, the phase is lobby, active
\* players, winners, kazhutha, pile, discard, taken-hand and waiting fields
\* are cleared, and start_game succeeds at once with the same roster.
C18_Reset ==
  [][\A player_name \in Names :
       play_again(player_name) =>
         /\ ~game.finished => game' = game
         /\ game.finished /\ player_name = game.host_name => ResetEffect(game, game')
         /\ game' # game => game.finished /\ ResetEffect(game, game')]_vars

\* C18 witness: a game of three has been reset to the lobby (the connected
\* set, which only start_game assigns, is still that of the game)
C18_Witness ==
  /\ ~game.game_started
  /\ game.connected_players # {}
  /\ Len(game.player_order) = 3
  /\ game.winners = <<>>
  /\ \A n \in DOMAIN game.players : game.players[n] = <<>>

\* the largest number of members of a session
MaxPlayers == 8

\* the result of add_player(player_name) in the current state
Added(player_name) == add_player(game, player_name)

\* C19: add_player(player_name) returns true iff the session is in the
\* lobby, player_name is not a member and there are fewer than MaxPlayers
\* members; on success player_name is appended to player_order and added to
\* players with an empty hand and nothing else changes, on failure nothing
\* changes; and a session never has more than MaxPlayers members.
C19_AddPlayer ==
  /\ Cardinality(DOMAIN game.players) <= MaxPlayers
  /\ Len(game.player_order) <= MaxPlayers
  /\ \A player_name \in LobbyNames :
       /\ Added(player_name).ok <=>
            /\ ~game.game_started
            /\ player_name \notin DOMAIN game.players
            /\ Cardinality(DOMAIN game.players) < MaxPlayers
       /\ Added(player_name).ok =>
            /\ Added(player_name).game.player_order = Append(game.player_order, player_name)
            /\ DOMAIN Added(player_name).game.players = DOMAIN game.players \cup {player_name}
            /\ Added(player_name).game.players[player_name] = <<>>
            /\ \A n \in DOMAIN game.players :
                 Added(player_name).game.players[n] = game.players[n]
            /\ [Added(player_name).game EXCEPT !.players = game.players,
                                               !.player_order = game.player_order] = game
       /\ ~Added(player_name).ok => Added(player_name).game = game

\* C19 witness: the session has MaxPlayers members and a further name is
\* refused
C19_Witness ==
  /\ Cardinality(DOMAIN game.players) = MaxPlayers
  /\ \E player_name \in LobbyNames \ DOMAIN game.players : ~Added(player_name).ok

\* C20: a start request deals only on a session in the lobby with at least 2
\* members, which it takes to the playing phase; on any other session (fewer
\* than 2 members, already started, finished) it changes nothing.
C20_StartOnlyFromLobby ==
  [][\A player_name \in RedealNames :
       api_start_game(player_name, RedealRanks) =>
         IF /\ ~game.game_started /\ ~game.finished
            /\ Cardinality(DOMAIN game.players) >= 2
            /\ player_name = game.host_name
         THEN game'.game_started /\ ~game'.finished
         ELSE game' = game]_vars

\* the places <<name, position>> of the hands of g that hold card
InHands(g, card) ==
  {<<n, i>> \in (DOMAIN g.players) \X (1..(NumSuits * MaxDeals * NumRanks)) :
     i <= Len(g.players[n]) /\ g.players[n][i] = card}

\* the state the claim gives a session after a successful start_game, the
\* deck having num_ranks ranks of each suit
StartPostcondition(g, num_ranks) ==
  /\ \A card \in Cards(num_ranks) : Cardinality(InHands(g, card)) = 1
  /\ \A n \in DOMAIN g.players : Range(g.players[n]) \subseteq Cards(num_ranks)
  /\ \A m, n \in DOMAIN g.players :
       Len(g.players[m]) - Len(g.players[n]) \in {-1, 0, 1}
  /\ g.active_players = g.player_order
  /\ g.original_players = g.player_order
  /\ g.connected_players = Range(g.player_order)
  /\ g.game_started

\* C21: a step in which start_game succeeds (the only steps after which the
\* session holds more cards than before) ends with every card of the deck in
\* exactly one hand, hand sizes that differ by at most one, active_players,
\* original_players and connected_players equal to the seating order, and
\* game_started true.
C21_StartPostcondition ==
  [][Len(AllCards(game')) > Len(AllCards(game))
       => \E num_ranks \in {NumRanks, RedealRanks} :
            StartPostcondition(game', num_ranks)]_vars

\* C22: whenever active_players is non-empty, current_player_idx is an index
\* into it: 0 <= current_player_idx < len(active_players).
C22_CurrentPlayerIdxValid ==
  game.active_players # <<>> =>
    /\ 0 <= game.current_player_idx
    /\ game.current_player_idx < Len(game.active_players)

\* C22 witness: in a game of three, one player has left active_players and
\* the turn is at the last of the two positions left
C22_Witness ==
  /\ game.game_started /\ ~game.finished
  /\ Len(game.player_order) = 3
  /\ Len(game.active_players) = 2
  /\ game.current_player_idx = 1

\* C23: between operations current_suit equals original_suit; the pile is
\* non-empty exactly when round_in_progress is true and exactly when the
\* round suit is set; and every card of the pile has the suit that opened
\* the round.
C23_RoundStateCoherent ==
  /\ game.current_suit = game.original_suit
  /\ (game.current_pile # <<>>) <=> game.round_in_progress
  /\ game.round_in_progress <=> (game.original_suit # None)
  /\ \A i \in 1..Len(game.current_pile) :
       game.current_pile[i][2].suit = game.original_suit

\* C23 witness: a round is open with two cards in the pile and a third player
\* still to play
C23_Witness ==
  /\ game.round_in_progress
  /\ Len(game.current_pile) = 2
  /\ Len(game.active_players) = 3
  /\ game.current_suit = game.current_pile[1][2].suit

\* C24: within one round every player has at most one play recorded: the
\* pile holds at most one entry per player name.
C24_OnePlayPerPlayer ==
  \A i, j \in 1..Len(game.current_pile) :
    game.current_pile[i][1] = game.current_pile[j][1] => i = j

\* C25: whenever waiting_for_player is set during a game in progress, it
\* names the current player, active_players[current_player_idx].
C25_WaitMarkerNamesCurrentPlayer ==
  (game.game_started /\ ~game.finished /\ game.waiting_for_player # None) =>
    /\ game.current_player_idx < Len(game.active_players)
    /\ game.waiting_for_player = game.active_players[game.current_player_idx + 1]

\* the session would accept a move of player_name: a play of a card of the
\* hand, or a take-hand
CanMove(player_name) ==
  \/ \E i \in 1..Len(game.players[player_name]) :
       play_card(game, player_name, game.players[player_name][i]).ok
  \/ take_hand_from_left(game, player_name).ok

\* C26: in every state with the game started and not finished the current
\* player holds at least one card and has a move the session would accept.
C26_NoStuckTurn ==
  (game.game_started /\ ~game.finished) =>
    /\ Len(game.players[current_player(game)]) > 0
    /\ CanMove(current_player(game))

\* the sessions one accepted move away from g: a play_card of a card of the
\* current player's hand, or the current player's take_hand_from_left
accepted_moves(g) ==
  IF ~g.game_started \/ g.finished THEN {}
  ELSE {play_card(g, current_player(g), card).game :
          card \in {c \in Range(g.players[current_player(g)]) :
                      play_card(g, current_player(g), c).ok}}
       \cup {take_hand_from_left(g, current_player(g)).game :
               ok \in {take_hand_from_left(g, current_player(g)).ok} \ {FALSE}}

\* some sequence of 1 to k accepted moves leads from a session of sessions
\* to target
RECURSIVE leads_back(_, _, _)
leads_back(sessions, k, target) ==
  IF k = 0 \/ sessions = {} THEN FALSE
  ELSE LET next == UNION {accepted_moves(g) : g \in sessions}
       IN target \in next \/ leads_back(next, k - 1, target)

\* C27 as stated: no sequence of accepted moves (here of up to MaxCycle
\* moves) brings a game that is not finished back to a state it was in; such
\* a sequence could be repeated forever and the game would never finish.
C27_NoCycleOfAcceptedMoves ==
  ~leads_back({game}, MaxCycle, game)

\* the cards of g still in the game: those of the hands and of the pile
InPlay(g) == Len(AllCards(g)) - Len(g.discarded_cards)

\* session after is lower than session before in the order that compares
\* the cards in the game, then the active players, then the plays the open
\* round still lacks
Lower(after, before) ==
  \/ InPlay(after) < InPlay(before)
  \/ /\ InPlay(after) = InPlay(before)
     /\ Len(after.active_players) < Len(before.active_players)
  \/ /\ InPlay(after) = InPlay(before)
     /\ Len(after.active_players) = Len(before.active_players)
     /\ Len(after.current_pile) > Len(before.current_pile)

\* C27: every accepted move either resolves a round with the suit broken,
\* and then leaves the number of cards in the game as it was and adds no
\* active player, or takes the session lower in an order that has no infinite
\* descent: fewer cards in the game, or as many and fewer active players, or
\* as many of both and one more card in the pile.  The sequences of accepted
\* moves that never finish are those with suit-broken rounds without end.
C27_ProgressUnlessSuitBroken ==
  \A player_name \in DOMAIN game.players :
    /\ \A card \in Range(game.players[player_name]) :
         Played(player_name, card).ok =>
           IF Resolved(player_name, card) /\ Played(player_name, card).game.suit_was_broken
           THEN /\ InPlay(Played(player_name, card).game) = InPlay(game)
                /\ Len(Played(player_name, card).game.active_players)
                     <= Len(game.active_players)
           ELSE Lower(Played(player_name, card).game, game)
    /\ take_hand_from_left(game, player_name).ok =>
         Lower(take_hand_from_left(game, player_name).game, game)

\* C27 witness: three players, nothing discarded yet, a round of three cards
\* has just been resolved with the suit broken and the game goes on
C27_Witness ==
  /\ game.game_started /\ ~game.finished
  /\ game.suit_was_broken
  /\ Len(game.resolved_pile) = 3
  /\ Len(game.active_players) = 3
  /\ game.discarded_cards = <<>>
  /\ game.current_pile = <<>>
====
